---- MODULE Spec2Model ----
(***************************************************************************)
(* moneycure backend: the bearer-token authorization pipeline              *)
(* (auth/tokens.js, auth/middleware.js) and the follow-up routes of the    *)
(* API server with their system comments (the audit trail).                *)
(*                                                                         *)
(* Node runs every callback to completion, so one action of the model is   *)
(* one run-to-completion segment of a request: the synchronous middleware  *)
(* chain up to the handler's first await, and then one segment per         *)
(* pool.query: the store executes the statement (or fails) and the handler *)
(* continues to its next await or to its response.  pool.query runs each   *)
(* statement in its own implicit transaction (autocommit): the handlers    *)
(* never take a client from the pool and never issue BEGIN/COMMIT.         *)
(***************************************************************************)
EXTENDS Integers, Sequences, FiniteSets, TLC

VARIABLES
    customers,     \* table customers: id -> [status, next_followup_date,
                   \* version]; version counts the row's UPDATEs (the
                   \* row versions the store keeps), no handler reads it
    comments,      \* table customer_comments, in created_at order
    reqs,          \* connection -> the request it carries and its progress
    clients,       \* what clients send: the Authorization headers they hold
                   \* (credentials) and the follow-up dates they type (dates)
    now,           \* wall clock, in days
    tz,            \* the process's time zone: offset from UTC in hours
    JWT_SECRET,    \* process.env.JWT_SECRET as read when tokens.js loads
    users          \* table users: email -> row

vars == <<customers, comments, reqs, clients, now, tz, JWT_SECRET, users>>

(***************************************************************************)
(* Bounds of the model.                                                    *)
(***************************************************************************)
NumConns == 2      \* concurrent connections of Spec
MaxNow == 8        \* the clock stops after this many days

Conns == 1..NumConns

(***************************************************************************)
(* JavaScript values.  Every value is a record tagged with its type, so    *)
(* that === between values of different types is plain inequality.         *)
(***************************************************************************)
Null == [t |-> "null"]
Undefined == [t |-> "undefined"]
Str(s) == [t |-> "string", v |-> s]

\* a string holding the digits of a date; shape tells how they are laid out:
\*   "YYYY-MM-DD", "DD-MM-YYYY", and "Www Mmm DD" (the first ten characters
\*   of Date.prototype.toString, which carry no year).  ws: the string has
\*   leading or trailing white space.
DateStr(shape, y, m, d, ws) ==
    [t |-> "string", shape |-> shape, y |-> y, m |-> m, d |-> d, ws |-> ws]
Ymd(y, m, d) == DateStr("YYYY-MM-DD", y, m, d, FALSE)

\* a value of SQL type date
SqlDate(y, m, d) == [t |-> "date", y |-> y, m |-> m, d |-> d]

\* a JS Date object holding local midnight of a calendar day
JsDate(y, m, d) == [t |-> "Date", y |-> y, m |-> m, d |-> d]

\* JS truthiness of the values the model uses: null, undefined and the
\* empty string are falsy
Truthy(v) == v # Null /\ v # Undefined /\ v # Str("")

(***************************************************************************)
(* Calendar.                                                               *)
(***************************************************************************)
IsLeap(y) == (y % 4 = 0 /\ y % 100 # 0) \/ y % 400 = 0

DaysInMonth(y, m) ==
    IF m = 2 THEN (IF IsLeap(y) THEN 29 ELSE 28)
    ELSE IF m \in {4, 6, 9, 11} THEN 30 ELSE 31

IsCalendarDate(y, m, d) == m \in 1..12 /\ d \in 1..DaysInMonth(y, m)

\* the day before a calendar date, as <<y, m, d>>
PrevDay(y, m, d) ==
    IF d > 1 THEN <<y, m, d - 1>>
    ELSE IF m > 1 THEN <<y, m - 1, DaysInMonth(y, m - 1)>>
    ELSE <<y - 1, 12, 31>>

\* the calendar date d days after the last day of the month before (y, m):
\* how V8's MakeDay carries a day number past the end of its month
CarryDay(y, m, d) ==
    IF d <= DaysInMonth(y, m) THEN <<y, m, d>>
    ELSE IF m < 12 THEN <<y, m + 1, d - DaysInMonth(y, m)>>
    ELSE <<y + 1, 1, d - DaysInMonth(y, m)>>

MonthShort(m) ==
    <<"Jan", "Feb", "Mar", "Apr", "May", "Jun",
      "Jul", "Aug", "Sep", "Oct", "Nov", "Dec">>[m]

(***************************************************************************)
(* auth/tokens.js.  A compact JWT is one string; the model keeps what it   *)
(* encodes: the claims, iat, exp and the key that signed it.               *)
(***************************************************************************)
ACCESS_TOKEN_EXPIRY == 7      \* '7d', in days

ServerSecret == Str("server-secret")
OtherSecret == Str("other-secret")

Jwt(claims, iat, exp, key) ==
    [t |-> "string", form |-> "jwt", claims |-> claims,
     iat |-> iat, exp |-> exp, sig |-> key]

\* a token string that is no JWT at all
NotAJwt == [t |-> "string", form |-> "garbage"]

Claims(userId, role, customerId) ==
    [userId |-> userId, role |-> role, customerId |-> customerId]

\* a ?? null
OrNull(a) == IF a = Null \/ a = Undefined THEN Null ELSE a

\* ensureJwtSecret throws iff !JWT_SECRET
ensureJwtSecret == Truthy(JWT_SECRET)

\* jwt.sign(claims, JWT_SECRET, {expiresIn: '7d'}) at time iat
createAccessToken(payload, iat) ==
    Jwt(Claims(payload.userId, payload.role, OrNull(payload.customerId)),
        iat, iat + ACCESS_TOKEN_EXPIRY, JWT_SECRET)

Threw(name) == [ok |-> FALSE, err |-> name, payload |-> Null]
Returned(payload) == [ok |-> TRUE, err |-> "", payload |-> payload]

\* jwt.verify taking a token for expired only once the clock has passed exp
JwtVerify_LateExpiry(tokenChars, secret, clock) ==
    IF Len(tokenChars) = 0 THEN Threw("JsonWebTokenError: jwt must be provided")
    ELSE IF Len(tokenChars) # 1 \/ tokenChars[1].form # "jwt"
        THEN Threw("JsonWebTokenError: jwt malformed")
    ELSE IF tokenChars[1].sig # secret
        THEN Threw("JsonWebTokenError: invalid signature")
    ELSE IF clock > tokenChars[1].exp
        THEN Threw("TokenExpiredError: jwt expired")
    ELSE Returned(tokenChars[1].claims)

\* jwt.verify(token, secret) at the current time: the token string must be
\* a JWT, its signature must verify under secret, and it is expired as soon
\* as the clock has reached exp
JwtVerify(tokenChars, secret, clock) ==
    IF Len(tokenChars) = 0 THEN Threw("JsonWebTokenError: jwt must be provided")
    ELSE IF Len(tokenChars) # 1 \/ tokenChars[1].form # "jwt"
        THEN Threw("JsonWebTokenError: jwt malformed")
    ELSE IF tokenChars[1].sig # secret
        THEN Threw("JsonWebTokenError: invalid signature")
    ELSE IF clock >= tokenChars[1].exp
        THEN Threw("TokenExpiredError: jwt expired")
    ELSE Returned(tokenChars[1].claims)

verifyAccessToken(tokenChars) ==
    IF ~ensureJwtSecret
        THEN Threw("Error: JWT_SECRET environment variable is not set")
        ELSE JwtVerify(tokenChars, JWT_SECRET, now)

(***************************************************************************)
(* Strings of the Authorization header: a sequence of characters, where a  *)
(* whole token counts as one character.                                    *)
(***************************************************************************)
Ch(c) == [t |-> "string", form |-> "char", v |-> c]
HeaderStr(chars) == [t |-> "string", chars |-> chars]

BearerPrefix ==
    <<Ch("B"), Ch("e"), Ch("a"), Ch("r"), Ch("e"), Ch("r"), Ch(" ")>>

startsWith(s, prefix) ==
    Len(s.chars) >= Len(prefix) /\ SubSeq(s.chars, 1, Len(prefix)) = prefix

slice(s, n) == SubSeq(s.chars, n + 1, Len(s.chars))

Bearer(token) == HeaderStr(BearerPrefix \o <<token>>)

(***************************************************************************)
(* auth/middleware.js.  A middleware is an operator on the request giving  *)
(* what it did: the responses it sent, whether it called next(), and       *)
(* req.user as it left it.  verified: verifyAccessToken was called, and    *)
(* err is what it threw.                                                   *)
(***************************************************************************)
Res(status, body) == [status |-> status, body |-> body]

Did(sent, next, user) ==
    [sent |-> sent, next |-> next, user |-> user, verified |-> FALSE, err |-> ""]

\* authenticate without the test of the scheme: any header that is present
\* is cut after seven characters and verified
authenticate_AnyScheme(req) ==
    LET authHeader == req.authorization IN
    IF authHeader = Undefined \/ authHeader.chars = <<>>
    THEN Did(<<Res(401, "Missing or invalid authorization header")>>,
             FALSE, req.user)
    ELSE LET token == slice(authHeader, 7)
             v == verifyAccessToken(token)
         IN  IF v.ok
             THEN [sent |-> <<>>, next |-> TRUE,
                   user |-> [userId |-> v.payload.userId,
                             role |-> v.payload.role,
                             customerId |-> OrNull(v.payload.customerId)],
                   verified |-> TRUE, err |-> ""]
             ELSE [sent |-> <<Res(401, "Invalid or expired token")>>,
                   next |-> FALSE, user |-> req.user,
                   verified |-> TRUE, err |-> v.err]

\* authenticate answering with the message of the error it caught
authenticate_LeaksCause(req) ==
    LET authHeader == req.authorization IN
    IF authHeader = Undefined \/ authHeader.chars = <<>>
           \/ ~startsWith(authHeader, BearerPrefix)
    THEN Did(<<Res(401, "Missing or invalid authorization header")>>,
             FALSE, req.user)
    ELSE LET token == slice(authHeader, 7)
             v == verifyAccessToken(token)
         IN  IF v.ok
             THEN [sent |-> <<>>, next |-> TRUE,
                   user |-> [userId |-> v.payload.userId,
                             role |-> v.payload.role,
                             customerId |-> OrNull(v.payload.customerId)],
                   verified |-> TRUE, err |-> ""]
             ELSE [sent |-> <<Res(401, v.err)>>,
                   next |-> FALSE, user |-> req.user,
                   verified |-> TRUE, err |-> v.err]

\* authenticate with a memory: once a logout has been answered it takes
\* every token for revoked
authenticate_RevokedAfterLogout(req) ==
    LET authHeader == req.authorization IN
    IF authHeader = Undefined \/ authHeader.chars = <<>>
           \/ ~startsWith(authHeader, BearerPrefix)
    THEN Did(<<Res(401, "Missing or invalid authorization header")>>,
             FALSE, req.user)
    ELSE LET token == slice(authHeader, 7)
             v == verifyAccessToken(token)
             revoked == \E x \in DOMAIN reqs :
                           /\ reqs[x].route = "POST /auth/logout"
                           /\ reqs[x].pc = "done"
         IN  IF v.ok /\ ~revoked
             THEN [sent |-> <<>>, next |-> TRUE,
                   user |-> [userId |-> v.payload.userId,
                             role |-> v.payload.role,
                             customerId |-> OrNull(v.payload.customerId)],
                   verified |-> TRUE, err |-> ""]
             ELSE [sent |-> <<Res(401, "Invalid or expired token")>>,
                   next |-> FALSE, user |-> req.user,
                   verified |-> TRUE, err |-> v.err]

authenticate(req) ==
    LET authHeader == req.authorization IN
    IF authHeader = Undefined \/ authHeader.chars = <<>>
           \/ ~startsWith(authHeader, BearerPrefix)
    THEN Did(<<Res(401, "Missing or invalid authorization header")>>,
             FALSE, req.user)
    ELSE LET token == slice(authHeader, 7)
             v == verifyAccessToken(token)
         IN  IF v.ok
             THEN [sent |-> <<>>, next |-> TRUE,
                   user |-> [userId |-> v.payload.userId,
                             role |-> v.payload.role,
                             customerId |-> OrNull(v.payload.customerId)],
                   verified |-> TRUE, err |-> ""]
             ELSE [sent |-> <<Res(401, "Invalid or expired token")>>,
                   next |-> FALSE, user |-> req.user,
                   verified |-> TRUE, err |-> v.err]

\* requireAdmin letting staff through as well
requireAdmin_StaffToo(req) ==
    IF req.user.role # "admin" /\ req.user.role # "staff"
    THEN Did(<<Res(403, "Admin access required")>>, FALSE, req.user)
    ELSE Did(<<>>, TRUE, req.user)

requireAdmin(req) ==
    IF req.user.role # "admin"
    THEN Did(<<Res(403, "Admin access required")>>, FALSE, req.user)
    ELSE Did(<<>>, TRUE, req.user)

\* requireStaffOrAdmin without the return before res.status(403): it
\* answers and then calls next() all the same
requireStaffOrAdmin_NoReturn(req) ==
    IF req.user.role # "admin" /\ req.user.role # "staff"
    THEN Did(<<Res(403, "Staff or admin access required")>>, TRUE, req.user)
    ELSE Did(<<>>, TRUE, req.user)

requireStaffOrAdmin(req) ==
    IF req.user.role # "admin" /\ req.user.role # "staff"
    THEN Did(<<Res(403, "Staff or admin access required")>>, FALSE, req.user)
    ELSE Did(<<>>, TRUE, req.user)

\* requireCustomerSelf without the comparison of customerId with :id
requireCustomerSelf_AnyCustomer(req) ==
    IF req.user.role = "admin" \/ req.user.role = "staff"
    THEN Did(<<>>, TRUE, req.user)
    ELSE IF req.user.role = "customer"
    THEN Did(<<>>, TRUE, req.user)
    ELSE Did(<<Res(403, "Access denied to this customer")>>, FALSE, req.user)

requireCustomerSelf(req) ==
    LET customerId == req.id IN
    IF req.user.role = "admin" \/ req.user.role = "staff"
    THEN Did(<<>>, TRUE, req.user)
    ELSE IF req.user.role = "customer" /\ req.user.customerId = customerId
    THEN Did(<<>>, TRUE, req.user)
    ELSE Did(<<Res(403, "Access denied to this customer")>>, FALSE, req.user)

(***************************************************************************)
(* The store.  Column customers.next_followup_date has SQL type date; the  *)
(* schema declares no type parser, so node-postgres hands a date column to *)
(* the handler as a JS Date at local midnight of that day, and null as     *)
(* null.                                                                   *)
(***************************************************************************)
\* a query parameter read as a date by the server: null, or the text of a
\* real calendar date in ISO layout (white space around it is skipped)
PgDateIn(v) ==
    IF v = Null THEN [ok |-> TRUE, val |-> Null]
    ELSE IF v.t = "string" /\ v.shape = "YYYY-MM-DD" /\ IsCalendarDate(v.y, v.m, v.d)
        THEN [ok |-> TRUE, val |-> SqlDate(v.y, v.m, v.d)]
    ELSE [ok |-> FALSE, val |-> Null]

\* a query parameter compared with a uuid column: the server reads it as a
\* uuid and fails the statement when it is none
PgUuidIn(v) == v \in {Str("c1"), Str("c2")}
InvalidUuid == "error: invalid input syntax for type uuid"

\* a date column as the driver returns it in a row
PgDateOut(v) == IF v = Null THEN Null ELSE JsDate(v.y, v.m, v.d)

\* String(x).trim() of a string
Trim(s) == [s EXCEPT !.ws = FALSE]

\* String(x).slice(0, 10).  A Date prints in local time as
\* "Mon Jun 15 2026 00:00:00 GMT+0000 (...)": its first ten characters are
\* the week day, the month name and the day; a ten-character string is
\* itself.  (The week day is a function of the rest and is left out.)
StringSlice10(x) ==
    IF x.t = "Date"
        THEN [t |-> "string", shape |-> "Www Mmm DD", m |-> x.m, d |-> x.d]
        ELSE x

\* /^\d{4}-\d{2}-\d{2}$/.test(s)
MatchesYmd(s) == s.shape = "YYYY-MM-DD" /\ ~s.ws

\* new Date(s + 'T00:00:00.000Z') for a ten-character s: V8 reads the ISO
\* layout, takes any month 1..12 and any day 1..31, and carries a day past
\* the end of its month into the next; every other text here is NaN (the
\* legacy parser refuses the letter T after a day number).  The result is
\* UTC midnight of the day given, or an invalid Date (getTime() is NaN).
NewDateUtcMidnight(s) ==
    IF s.shape = "YYYY-MM-DD" /\ ~s.ws /\ s.m \in 1..12 /\ s.d \in 1..31
        THEN [nan |-> FALSE, day |-> CarryDay(s.y, s.m, s.d)]
        ELSE [nan |-> TRUE, day |-> <<>>]

\* the calendar day of UTC midnight of day as seen in the process's time
\* zone: west of Greenwich it is still the evening before
LocalDay(day) == IF tz < 0 THEN PrevDay(day[1], day[2], day[3]) ELSE day

\* the text toLocaleDateString('en-GB', {day: 'numeric', month: 'short',
\* year: 'numeric'}) gives for a local calendar day: "15 Jun 2026"
Rendered(day) ==
    [t |-> "string", shape |-> "D Mmm YYYY",
     d |-> day[3], mon |-> MonthShort(day[2]), y |-> day[1]]

formatCommentDate(dateStr) ==
    IF ~Truthy(dateStr) THEN Null
    ELSE LET d == NewDateUtcMidnight(dateStr) IN
         IF d.nan THEN Null ELSE Rendered(LocalDay(d.day))

\* `${x}` in a template literal
Interpolate(x) == IF x = Null THEN Str("null") ELSE x

\* the system comments
FollowUpCleared == <<Str("Follow-up cleared.")>>
FollowUpScheduled(newDate) ==
    <<Str("Follow-up scheduled for "), Interpolate(formatCommentDate(newDate)),
      Str(".")>>
FollowUpChanged(previousDate, newDate) ==
    <<Str("Follow-up date changed from "),
      Interpolate(formatCommentDate(previousDate)), Str(" to "),
      Interpolate(formatCommentDate(newDate)), Str(".")>>
\* mark-done narrated as the generic clearing
FollowUpDone_Generic == FollowUpCleared

FollowUpDone == <<Str("Follow-up marked as done.")>>

\* the comment PUT /customers/:id/followup writes after its UPDATE
FollowUpComment(previousDate, newDate) ==
    IF newDate = Null \/ newDate = Str("") THEN FollowUpCleared
    ELSE IF previousDate = Null \/ previousDate = Str("")
        THEN FollowUpScheduled(newDate)
    ELSE FollowUpChanged(previousDate, newDate)

(***************************************************************************)
(* Requests.                                                               *)
(***************************************************************************)
PostCustomers == "POST /customers"
PatchCustomer == "PATCH /customers/:id"
PutFollowup == "PUT /customers/:id/followup"
PostFollowupDone == "POST /customers/:id/followup/done"
GetComments == "GET /customers/:id/comments"
PostComments == "POST /customers/:id/comments"

Routes == {PostCustomers, PatchCustomer, PutFollowup, PostFollowupDone,
           GetComments, PostComments}

\* the follow-up routes guarded like the comment routes
Guard_FollowupBySelf(route, req) ==
    IF route = PostCustomers THEN requireAdmin(req)
    ELSE IF route = PatchCustomer THEN requireStaffOrAdmin(req)
    ELSE requireCustomerSelf(req)

\* the guard each route names after authenticate
Guard(route, req) ==
    IF route = PostCustomers THEN requireAdmin(req)
    ELSE IF route \in {PatchCustomer, PutFollowup, PostFollowupDone}
        THEN requireStaffOrAdmin(req)
    ELSE requireCustomerSelf(req)

\* c1 and c2 stand for two uuids; "abc" is a path segment that is no uuid
Cust1 == Str("c1")
Cust2 == Str("c2")
Ids == {Cust1, Cust2}
BadId == Str("abc")
PathIds == Ids \cup {BadId}

D1 == Ymd(2026, 6, 15)
D2 == Ymd(2026, 7, 1)

Body(name, phone, status, nfd, comment) ==
    [name |-> name, phone |-> phone, status |-> status,
     next_followup_date |-> nfd, comment |-> comment]
NoBody == Body(Undefined, Undefined, Undefined, Undefined, Undefined)

\* next_followup_date values a client may put in a body
GoodDates == {Null, D1, D2}
OddDates ==
    {Undefined,
     DateStr("YYYY-MM-DD", 2026, 6, 15, TRUE),     \* " 2026-06-15 "
     DateStr("DD-MM-YYYY", 2026, 6, 15, FALSE),    \* "15-06-2026"
     Ymd(2026, 13, 40),                            \* "2026-13-40"
     Ymd(2026, 2, 30)}                             \* "2026-02-30"

\* the bodies clients send to a route, given the dates they use
Bodies(route, dates) ==
    IF route = PutFollowup
        THEN {[NoBody EXCEPT !.next_followup_date = d] : d \in dates}
    ELSE IF route = PatchCustomer
        THEN {[NoBody EXCEPT !.next_followup_date = d, !.status = s] :
                d \in dates \cup {Undefined}, s \in {Undefined, Str("followup")}}
    ELSE IF route = PostCustomers
        THEN {Body(Str("Asha"), Undefined, Undefined, Undefined, Undefined)}
             \cup {Body(Str("Asha"), Str("98"), Undefined, d, Undefined) :
                     d \in (dates \cap {D1, Undefined})}
    ELSE IF route = PostComments
        THEN {NoBody, [NoBody EXCEPT !.comment = Str("called")]}
    ELSE {NoBody}

\* a request as it arrives on a connection, and the record of its progress:
\*   before       the routes of the requests that were already answered when
\*                it arrived
\*   pc           "idle", the query the handler awaits, or "done"
\*   sent         the responses written, in order
\*   nextCalls    how many middlewares called next()
\*   verified     authenticate called verifyAccessToken
\*   err          the error verifyAccessToken, createAccessToken or
\*                bcrypt.compare threw, or the error the store gave for a
\*                parameter it cannot read
\*   queries      the statements the store has executed for the request
\*   value, previousDate, commentText   the handler's locals
\*   read         what the handler's SELECT returned: <<[version, value]>>
\*   wrote        the UPDATE of next_followup_date the store committed for
\*                the request: <<[from, to]>>, else <<>>
\*   appended     the comment rows the store committed for the request
\*   issued       the accessToken in the response of a login: <<token>>
Idle ==
    [pc |-> "idle", before |-> {}, route |-> "", authorization |-> Undefined,
     id |-> Undefined,
     body |-> NoBody, user |-> Undefined, sent |-> <<>>, nextCalls |-> 0,
     verified |-> FALSE, err |-> "", queries |-> <<>>,
     value |-> Null, previousDate |-> Null, commentText |-> <<>>,
     read |-> <<>>, wrote |-> <<>>, appended |-> <<>>, issued |-> <<>>]

\* the synchronous start of each handler: its validation, up to the first
\* await.  pc names the statement it then awaits.
Started(pc, value) == [sent |-> <<>>, pc |-> pc, value |-> value]
Refused(status, body) == [sent |-> <<Res(status, body)>>, pc |-> "done", value |-> Null]

PutFollowupStart(req) ==
    LET next_followup_date == req.body.next_followup_date
        dateStr == Trim(next_followup_date)
    IN  IF next_followup_date # Null /\ next_followup_date # Undefined
            /\ ~MatchesYmd(dateStr)
        THEN Refused(400, "next_followup_date must be YYYY-MM-DD or null")
        ELSE IF next_followup_date # Null /\ next_followup_date # Undefined
            /\ NewDateUtcMidnight(dateStr).nan
        THEN Refused(400, "next_followup_date is not a valid date")
        ELSE Started("put_select",
                     IF next_followup_date = Null \/ next_followup_date = Undefined
                        THEN Null ELSE Trim(next_followup_date))

HandlerStart(req) ==
    IF req.route = PostCustomers
        THEN IF ~Truthy(req.body.name) \/ ~Truthy(req.body.phone)
             THEN Refused(400, "name and phone are required")
             ELSE Started("create_insert", Null)
    ELSE IF req.route = PatchCustomer
        THEN IF req.body.status = Undefined /\ req.body.next_followup_date = Undefined
             THEN Refused(400, "No fields to update")
             ELSE Started("patch_update", Null)
    ELSE IF req.route = PutFollowup THEN PutFollowupStart(req)
    ELSE IF req.route = PostFollowupDone THEN Started("done_update", Null)
    ELSE IF req.route = GetComments THEN Started("comments_select", Null)
    ELSE IF ~Truthy(req.body.comment)
             THEN Refused(400, "comment is required")
             ELSE Started("comments_insert", Null)

NotRun == [sent |-> <<>>, next |-> FALSE, pc |-> "done", value |-> Null]

\* Express runs the route's stack: a middleware runs iff the one before it
\* called next()
RunChain(req0) ==
    LET a == authenticate(req0)
        req1 == [req0 EXCEPT !.user = a.user]
        g == IF a.next THEN Guard(req0.route, req1) ELSE NotRun
        h == IF a.next /\ g.next THEN HandlerStart(req1) ELSE NotRun
    IN  [req1 EXCEPT !.sent = a.sent \o g.sent \o h.sent,
                     !.nextCalls = (IF a.next THEN 1 ELSE 0)
                                   + (IF a.next /\ g.next THEN 1 ELSE 0),
                     !.verified = a.verified,
                     !.err = a.err,
                     !.pc = h.pc,
                     !.value = h.value]

Before == {reqs[x].route : x \in {y \in DOMAIN reqs : reqs[y].pc = "done"}}

\* a request arrives on an idle connection and runs to its first await
Receive(r) ==
    /\ reqs[r].pc = "idle"
    /\ \E route \in clients.routes, authorization \in clients.credentials :
       \E id \in (IF route = PostCustomers THEN {Undefined} ELSE PathIds),
          body \in Bodies(route, clients.dates) :
            reqs' = [reqs EXCEPT ![r] =
                RunChain([Idle EXCEPT !.before = Before, !.route = route,
                                      !.authorization = authorization,
                                      !.id = id, !.body = body])]
    /\ UNCHANGED <<customers, comments, clients, now, tz, JWT_SECRET, users>>

(***************************************************************************)
(* The handlers' continuations: one action per awaited pool.query.  Each   *)
(* statement may fail in the store or on the way to it (pool.query         *)
(* rejects); the handler's catch then answers 500.                         *)
(***************************************************************************)
\* the handler responds and returns: its locals are gone
Finish(q, res) ==
    [q EXCEPT !.pc = "done", !.sent = Append(@, res),
              !.value = Null, !.previousDate = Null, !.commentText = <<>>]

Ran(q, stmt) == [q EXCEPT !.queries = Append(@, stmt)]

Ok200 == Res(200, "row")
NotFound == Res(404, "Customer not found")

\* UPDATE customers SET next_followup_date = v WHERE id = id
SetFollowup(id, v) ==
    [customers EXCEPT ![id].next_followup_date = v, ![id].version = @ + 1]

\* an insert that takes the place of the record's latest comment
InsertComment_Replace(id, text) ==
    IF comments # <<>> /\ comments[Len(comments)].customer_id = id
    THEN [comments EXCEPT ![Len(comments)] = [customer_id |-> id, comment |-> text]]
    ELSE Append(comments, [customer_id |-> id, comment |-> text])

\* INSERT INTO customer_comments (customer_id, comment) VALUES (id, text)
InsertComment(id, text) == Append(comments, [customer_id |-> id, comment |-> text])

\* PUT /customers/:id/followup: SELECT next_followup_date ...
PutFollowupSelect(r) ==
    LET q == reqs[r] IN
    /\ q.pc = "put_select"
    /\ \/ reqs' = [reqs EXCEPT ![r] =
                      Finish(q, Res(500, "Failed to update follow-up date"))]
       \/ reqs' = [reqs EXCEPT ![r] =
            IF ~PgUuidIn(q.id)
            THEN Finish([q EXCEPT !.err = InvalidUuid],
                        Res(500, "Failed to update follow-up date"))
            ELSE IF q.id \notin DOMAIN customers
            THEN Finish(Ran(q, "SELECT"), NotFound)
            ELSE LET col == PgDateOut(customers[q.id].next_followup_date) IN
                 [Ran(q, "SELECT") EXCEPT
                    !.pc = "put_update",
                    !.read = <<[version |-> customers[q.id].version,
                                value |-> customers[q.id].next_followup_date]>>,
                    !.previousDate = IF Truthy(col) THEN StringSlice10(col) ELSE Null]]
    /\ UNCHANGED <<customers, comments, clients, now, tz, JWT_SECRET, users>>

\* ... UPDATE customers SET next_followup_date = $1 ..., then the comparison
\* of previousDate with newDate
PutFollowupUpdate(r) ==
    LET q == reqs[r]
        param == PgDateIn(q.value)
        newDate == q.value
        q2 == [Ran(q, "UPDATE") EXCEPT !.wrote =
                 <<[from |-> customers[q.id].next_followup_date,
                    to |-> param.val]>>]
    IN
    /\ q.pc = "put_update"
    /\ \/ /\ reqs' = [reqs EXCEPT ![r] =
                        Finish(q, Res(500, "Failed to update follow-up date"))]
          /\ UNCHANGED customers
       \/ IF ~param.ok
          THEN /\ reqs' = [reqs EXCEPT ![r] =
                        Finish(q, Res(500, "Failed to update follow-up date"))]
               /\ UNCHANGED customers
          ELSE IF q.id \notin DOMAIN customers
          THEN /\ reqs' = [reqs EXCEPT ![r] = Finish(Ran(q, "UPDATE"), NotFound)]
               /\ UNCHANGED customers
          ELSE /\ customers' = SetFollowup(q.id, param.val)
               /\ reqs' = [reqs EXCEPT ![r] =
                    IF q.previousDate # newDate
                    THEN [q2 EXCEPT !.pc = "put_insert",
                                    !.commentText =
                                        FollowUpComment(q.previousDate, newDate)]
                    ELSE Finish(q2, Ok200)]
    /\ UNCHANGED <<comments, clients, now, tz, JWT_SECRET, users>>

\* ... INSERT INTO customer_comments ...
PutFollowupInsert(r) ==
    LET q == reqs[r] IN
    /\ q.pc = "put_insert"
    /\ \/ /\ reqs' = [reqs EXCEPT ![r] =
                        Finish(q, Res(500, "Failed to update follow-up date"))]
          /\ UNCHANGED comments
       \/ /\ comments' = InsertComment(q.id, q.commentText)
          /\ reqs' = [reqs EXCEPT ![r] =
                Finish([Ran(q, "INSERT") EXCEPT !.appended = Append(@, q.commentText)],
                       Ok200)]
    /\ UNCHANGED <<customers, clients, now, tz, JWT_SECRET, users>>

\* POST /customers/:id/followup/done: UPDATE ... SET next_followup_date = NULL
MarkDoneUpdate(r) ==
    LET q == reqs[r] IN
    /\ q.pc = "done_update"
    /\ \/ /\ reqs' = [reqs EXCEPT ![r] =
                        Finish(q, Res(500, "Failed to mark follow-up done"))]
          /\ UNCHANGED customers
       \/ IF ~PgUuidIn(q.id)
          THEN /\ reqs' = [reqs EXCEPT ![r] =
                        Finish([q EXCEPT !.err = InvalidUuid],
                               Res(500, "Failed to mark follow-up done"))]
               /\ UNCHANGED customers
          ELSE IF q.id \notin DOMAIN customers
          THEN /\ reqs' = [reqs EXCEPT ![r] = Finish(Ran(q, "UPDATE"), NotFound)]
               /\ UNCHANGED customers
          ELSE /\ customers' = SetFollowup(q.id, Null)
               /\ reqs' = [reqs EXCEPT ![r] =
                    [Ran(q, "UPDATE") EXCEPT
                        !.pc = "done_insert",
                        !.wrote = <<[from |-> customers[q.id].next_followup_date,
                                     to |-> Null]>>]]
    /\ UNCHANGED <<comments, clients, now, tz, JWT_SECRET, users>>

\* ... INSERT INTO customer_comments ... 'Follow-up marked as done.'
MarkDoneInsert(r) ==
    LET q == reqs[r] IN
    /\ q.pc = "done_insert"
    /\ \/ /\ reqs' = [reqs EXCEPT ![r] =
                        Finish(q, Res(500, "Failed to mark follow-up done"))]
          /\ UNCHANGED comments
       \/ /\ comments' = InsertComment(q.id, FollowUpDone)
          /\ reqs' = [reqs EXCEPT ![r] =
                Finish([Ran(q, "INSERT") EXCEPT !.appended = Append(@, FollowUpDone)],
                       Ok200)]
    /\ UNCHANGED <<customers, clients, now, tz, JWT_SECRET, users>>

\* PATCH /customers/:id: UPDATE customers SET <the fields given> ...
StatusValues == {Str("new"), Str("followup"), Str("converted"), Str("lost")}

PatchUpdate(r) ==
    LET q == reqs[r]
        status == q.body.status
        next_followup_date == q.body.next_followup_date
        param == IF next_followup_date = Undefined
                    THEN [ok |-> TRUE, val |-> Null]
                    ELSE PgDateIn(next_followup_date)
        old == customers[q.id]
    IN
    /\ q.pc = "patch_update"
    /\ \/ /\ reqs' = [reqs EXCEPT ![r] =
                        Finish(q, Res(500, "Failed to update customer"))]
          /\ UNCHANGED customers
       \/ IF ~param.ok \/ ~PgUuidIn(q.id)
             \/ (status # Undefined /\ status \notin StatusValues)
          THEN /\ reqs' = [reqs EXCEPT ![r] =
                        Finish(q, Res(500, "Failed to update customer"))]
               /\ UNCHANGED customers
          ELSE IF q.id \notin DOMAIN customers
          THEN /\ reqs' = [reqs EXCEPT ![r] = Finish(Ran(q, "UPDATE"), NotFound)]
               /\ UNCHANGED customers
          ELSE /\ customers' = [customers EXCEPT ![q.id] =
                    [status |-> IF status # Undefined THEN status ELSE old.status,
                     version |-> old.version + 1,
                     next_followup_date |->
                        IF next_followup_date # Undefined
                           THEN param.val ELSE old.next_followup_date]]
               /\ reqs' = [reqs EXCEPT ![r] =
                    Finish([Ran(q, "UPDATE") EXCEPT !.wrote =
                              IF next_followup_date # Undefined
                                 THEN <<[from |-> old.next_followup_date,
                                         to |-> param.val]>>
                                 ELSE <<>>],
                           Ok200)]
    /\ UNCHANGED <<comments, clients, now, tz, JWT_SECRET, users>>

\* POST /customers: INSERT INTO customers ... with a fresh id
CreateInsert(r) ==
    LET q == reqs[r]
        nfd == IF Truthy(q.body.next_followup_date)
                  THEN q.body.next_followup_date ELSE Null
        param == PgDateIn(nfd)
    IN
    /\ q.pc = "create_insert"
    /\ \/ /\ reqs' = [reqs EXCEPT ![r] =
                        Finish(q, Res(500, "Failed to create customer"))]
          /\ UNCHANGED customers
       \/ /\ param.ok
          /\ \E id \in Ids \ DOMAIN customers :
                customers' = customers @@
                    (id :> [status |-> Str("new"), next_followup_date |-> param.val,
                            version |-> 0])
          /\ reqs' = [reqs EXCEPT ![r] = Finish(Ran(q, "INSERT"), Res(201, "row"))]
    /\ UNCHANGED <<comments, clients, now, tz, JWT_SECRET, users>>

\* GET /customers/:id/comments: SELECT ... ORDER BY created_at ASC
CommentsSelect(r) ==
    LET q == reqs[r] IN
    /\ q.pc = "comments_select"
    /\ \/ reqs' = [reqs EXCEPT ![r] =
                      Finish(q, Res(500, "Failed to fetch customer comments"))]
       \/ reqs' = [reqs EXCEPT ![r] =
            IF ~PgUuidIn(q.id)
            THEN Finish([q EXCEPT !.err = InvalidUuid],
                        Res(500, "Failed to fetch customer comments"))
            ELSE Finish(Ran(q, "SELECT"), Res(200, "rows"))]
    /\ UNCHANGED <<customers, comments, clients, now, tz, JWT_SECRET, users>>

\* POST /customers/:id/comments: INSERT INTO customer_comments ...; the
\* foreign key refuses a customer_id that is no customer
CommentsInsert(r) ==
    LET q == reqs[r] IN
    /\ q.pc = "comments_insert"
    /\ \/ /\ reqs' = [reqs EXCEPT ![r] =
                        Finish(q, Res(500, "Failed to add customer comment"))]
          /\ UNCHANGED comments
       \/ /\ q.id \in DOMAIN customers
          /\ comments' = InsertComment(q.id, <<q.body.comment>>)
          /\ reqs' = [reqs EXCEPT ![r] =
                Finish([Ran(q, "INSERT") EXCEPT !.appended = Append(@, <<q.body.comment>>)],
                       Res(201, "row"))]
    /\ UNCHANGED <<customers, clients, now, tz, JWT_SECRET, users>>

(***************************************************************************)
(* routes/auth.js and table users.                                         *)
(***************************************************************************)
PostLogin == "POST /auth/login"
PostLogout == "POST /auth/logout"

\* an email address as typed: its letters, and whether it is typed with
\* capitals or white space around it
Email(v, plain) == [t |-> "string", v |-> v, plain |-> plain]

\* email.trim().toLowerCase()
TrimLower(email) == [email EXCEPT !.plain = TRUE]

\* a JSON number in a body
Num(n) == [t |-> "number", v |-> n]

\* bcrypt.hash(password, 10) and bcrypt.compare(password, hash): compare
\* rejects when the data it is given is no string
BcryptHash(password) == [t |-> "string", form |-> "bcrypt", of |-> password]
BcryptCompare(password, hash) ==
    IF password.t # "string" \/ hash.t # "string"
    THEN Threw("Error: data and hash must be strings")
    ELSE Returned(hash = BcryptHash(password))

UserRow(id, email, password, role, customer_id) ==
    [id |-> Str(id), email |-> Email(email, TRUE),
     password_hash |-> BcryptHash(Str(password)),
     role |-> role, customer_id |-> customer_id, auth_provider |-> Str("local")]

\* table users without its constraint
users_customer_role_check_Dropped(row) == TRUE

\* CONSTRAINT users_customer_role_check
users_customer_role_check(row) ==
    \/ (row.role = "customer" /\ row.customer_id # Null)
    \/ (row.role \in {"admin", "staff"} /\ row.customer_id = Null)

\* the rows scripts/runSeed.js leaves in table users; its customer is the
\* 'Dummy Customer' row of table customers
DUMMY_USERS ==
    {UserRow("u1", "admin@gmail.com", "123456", "admin", Null),
     UserRow("u2", "staff@gmail.com", "123456", "staff", Null),
     UserRow("u3", "customer@gmail.com", "123456", "customer", Str("c1"))}

\* tables of users: the seeded one with its customer tied to either record,
\* as far as the constraint of the table admits their rows
UsersTables ==
    {T \in {{UserRow("u1", "admin@gmail.com", "123456", "admin", a),
              UserRow("u2", "staff@gmail.com", "123456", "staff", Null),
              UserRow("u3", "customer@gmail.com", "123456", "customer", c)} :
                a \in {Null, Str("c1")}, c \in {Null, Str("c1"), Str("c2")}} :
        \A row \in T : users_customer_role_check(row)}

LoginBody(email, password) == [email |-> email, password |-> password]

LoginFailed == Res(500, "Login failed")
InvalidLogin == Res(401, "Invalid email or password")

\* POST /auth/login arrives: the check of the body, up to the SELECT
LoginReceive(r) ==
    /\ reqs[r].pc = "idle"
    /\ \E body \in clients.logins :
          reqs' = [reqs EXCEPT ![r] =
            LET q == [Idle EXCEPT !.before = Before, !.route = PostLogin, !.body = body] IN
            IF ~Truthy(body.email) \/ ~Truthy(body.password)
            THEN [q EXCEPT !.pc = "done",
                           !.sent = <<Res(400, "email and password are required")>>]
            ELSE [q EXCEPT !.pc = "login_select"]]
    /\ UNCHANGED <<customers, comments, clients, now, tz, JWT_SECRET, users>>

\* ... SELECT ... FROM users WHERE email = $1 AND auth_provider = 'local'
LoginSelect(r) ==
    LET q == reqs[r]
        rows == {u \in users : /\ u.email = TrimLower(q.body.email)
                               /\ u.auth_provider = Str("local")}
    IN
    /\ q.pc = "login_select"
    /\ \/ reqs' = [reqs EXCEPT ![r] = Finish(q, LoginFailed)]
       \/ reqs' = [reqs EXCEPT ![r] =
            IF rows = {}
            THEN Finish(Ran(q, "SELECT"), InvalidLogin)
            ELSE [Ran(q, "SELECT") EXCEPT
                    !.pc = "login_compare",
                    !.read = <<CHOOSE u \in rows : TRUE>>]]
    /\ UNCHANGED <<customers, comments, clients, now, tz, JWT_SECRET, users>>

\* ... bcrypt.compare, createAccessToken and the response; the client keeps
\* the token it is given
LoginCompare(r) ==
    LET q == reqs[r]
        user == q.read[1]
        compared == BcryptCompare(q.body.password, user.password_hash)
        match == compared.payload
        accessToken == createAccessToken(
                          [userId |-> user.id, role |-> user.role,
                           customerId |-> OrNull(user.customer_id)], now)
    IN
    /\ q.pc = "login_compare"
    /\ IF ~compared.ok
       THEN /\ reqs' = [reqs EXCEPT ![r] =
                    Finish([q EXCEPT !.err = compared.err], LoginFailed)]
            /\ UNCHANGED clients
       ELSE IF ~match
       THEN /\ reqs' = [reqs EXCEPT ![r] = Finish(q, InvalidLogin)]
            /\ UNCHANGED clients
       ELSE IF ~ensureJwtSecret
       THEN /\ reqs' = [reqs EXCEPT ![r] =
                    Finish([q EXCEPT !.err =
                              "Error: JWT_SECRET environment variable is not set"],
                           LoginFailed)]
            /\ UNCHANGED clients
       ELSE /\ reqs' = [reqs EXCEPT ![r] =
                    Finish([q EXCEPT !.issued = <<accessToken>>],
                           Res(200, "accessToken"))]
            /\ clients' = [clients EXCEPT !.credentials = @ \cup {Bearer(accessToken)}]
    /\ UNCHANGED <<customers, comments, now, tz, JWT_SECRET, users>>

\* POST /auth/logout
Logout(r) ==
    /\ reqs[r].pc = "idle"
    /\ reqs' = [reqs EXCEPT ![r] =
            [Idle EXCEPT !.before = Before, !.route = PostLogout, !.pc = "done",
                         !.sent = <<Res(200, "ok")>>]]
    /\ UNCHANGED <<customers, comments, clients, now, tz, JWT_SECRET, users>>

\* a day passes
Tick ==
    /\ now < MaxNow
    /\ now' = now + 1
    /\ UNCHANGED <<customers, comments, reqs, clients, tz, JWT_SECRET, users>>

(***************************************************************************)
(* The tokens and headers in clients' hands.                               *)
(***************************************************************************)
Token(userId, role, customerId, iat, key) ==
    Jwt(Claims(Str(userId), role, customerId), iat, iat + ACCESS_TOKEN_EXPIRY, key)

AdminToken == Token("u1", "admin", Null, 0, ServerSecret)
StaffToken == Token("u2", "staff", Null, 0, ServerSecret)
CustomerToken == Token("u3", "customer", Cust1, 0, ServerSecret)

\* a staff token issued six days ago: it expires when the first day passes
AgingToken == Token("u2", "staff", Null, 0 - 6, ServerSecret)
\* an admin token issued seven days ago
ExpiredToken == Token("u1", "admin", Null, 0 - 7, ServerSecret)
\* an admin token signed with another key
ForgedToken == Token("u1", "admin", Null, 0, OtherSecret)
\* tokens signed with the server's key whose claims no login would issue
OrphanToken == Token("u4", "customer", Null, 0, ServerSecret)
GuestToken == Token("u5", "guest", Null, 0, ServerSecret)

LowerBearerPrefix ==
    <<Ch("b"), Ch("e"), Ch("a"), Ch("r"), Ch("e"), Ch("r"), Ch(" ")>>

AllCredentials ==
    {Undefined,                                     \* no Authorization header
     HeaderStr(<<>>),                               \* an empty header
     HeaderStr(SubSeq(BearerPrefix, 1, 6)),         \* "Bearer"
     HeaderStr(LowerBearerPrefix \o <<AdminToken>>),\* "bearer <token>"
     Bearer(NotAJwt)}
    \cup {Bearer(tok) : tok \in {AdminToken, StaffToken, CustomerToken,
                                 AgingToken, ExpiredToken, ForgedToken,
                                 OrphanToken, GuestToken}}

\* west of Greenwich and not; east of it a day renders as in UTC
TimeZones == {0 - 5, 0}

InitStore ==
    /\ customers \in
         {(Cust1 :> [status |-> Str("new"), next_followup_date |-> d,
                     version |-> 0]) :
            d \in {Null, SqlDate(2026, 6, 15)}}
    /\ comments = <<>>
    /\ now = 0
    /\ tz \in TimeZones

\* concurrent requests of the office: an admin's token, well-formed dates
Init ==
    /\ InitStore
    /\ reqs = [r \in Conns |-> Idle]
    /\ clients = [credentials |-> {Bearer(AdminToken), Bearer(CustomerToken)},
                  dates |-> GoodDates, logins |-> {}, routes |-> Routes]
    /\ JWT_SECRET = ServerSecret
    /\ users = DUMMY_USERS

\* one request at a time, with every kind of credential and of date
InitPipeline ==
    /\ InitStore
    /\ reqs = [r \in 1..1 |-> Idle]
    /\ clients = [credentials |-> AllCredentials, dates |-> GoodDates \cup OddDates,
                  logins |-> {}, routes |-> Routes]
    /\ JWT_SECRET \in {ServerSecret, Undefined}
    /\ users = DUMMY_USERS

Next ==
    \/ \E r \in Conns : Receive(r)
    \/ \E r \in Conns : PutFollowupSelect(r)
    \/ \E r \in Conns : PutFollowupUpdate(r)
    \/ \E r \in Conns : PutFollowupInsert(r)
    \/ \E r \in Conns : MarkDoneUpdate(r)
    \/ \E r \in Conns : MarkDoneInsert(r)
    \/ \E r \in Conns : PatchUpdate(r)
    \/ \E r \in Conns : CreateInsert(r)
    \/ \E r \in Conns : CommentsSelect(r)
    \/ \E r \in Conns : CommentsInsert(r)

NextPipeline ==
    \/ \E r \in 1..1 : Receive(r)
    \/ \E r \in 1..1 : PutFollowupSelect(r)
    \/ \E r \in 1..1 : PutFollowupUpdate(r)
    \/ \E r \in 1..1 : PutFollowupInsert(r)
    \/ \E r \in 1..1 : MarkDoneUpdate(r)
    \/ \E r \in 1..1 : MarkDoneInsert(r)
    \/ \E r \in 1..1 : PatchUpdate(r)
    \/ \E r \in 1..1 : CreateInsert(r)
    \/ \E r \in 1..1 : CommentsSelect(r)
    \/ \E r \in 1..1 : CommentsInsert(r)
    \/ Tick

\* two requests whose tokens both fail to verify, each for its own reason
InitDecodeFailures ==
    /\ InitStore
    /\ reqs = [r \in 1..2 |-> Idle]
    /\ clients = [credentials |-> {Bearer(NotAJwt), Bearer(ExpiredToken),
                                   Bearer(ForgedToken)},
                  dates |-> {Null}, logins |-> {}, routes |-> Routes]
    /\ JWT_SECRET = ServerSecret
    /\ users = DUMMY_USERS

NextDecodeFailures == \E r \in 1..2 : Receive(r)

\* what clients type into the login form
SessionLogins ==
    {LoginBody(Email("admin@gmail.com", TRUE), Str("123456")),
     LoginBody(Email("staff@gmail.com", TRUE), Str("123456")),
     LoginBody(Email("customer@gmail.com", FALSE), Str("123456")),
     LoginBody(Email("customer@gmail.com", TRUE), Str("654321")),
     LoginBody(Email("nobody@gmail.com", TRUE), Str("123456")),
     LoginBody(Email("staff@gmail.com", TRUE), Num(123456)),
     LoginBody(Email("nobody@gmail.com", TRUE), Num(123456)),
     LoginBody(Email("admin@gmail.com", TRUE), Undefined)}

\* sessions: a login, then a logout or another login, and a request that
\* presents a token a login issued, while the days pass
InitSessions ==
    /\ customers = (Cust1 :> [status |-> Str("new"), next_followup_date |-> Null,
                              version |-> 0])
    /\ comments = <<>>
    /\ now = 0
    /\ tz = 0
    /\ reqs = [r \in 1..3 |-> Idle]
    /\ clients = [credentials |-> {}, dates |-> {D1}, logins |-> SessionLogins,
                  routes |-> {PutFollowup, GetComments}]
    /\ JWT_SECRET \in {ServerSecret, Undefined}
    /\ users \in UsersTables

NextSessions ==
    \/ \E r \in 1..2 : LoginReceive(r)
    \/ \E r \in 1..2 : LoginSelect(r)
    \/ \E r \in 1..2 : LoginCompare(r)
    \/ \E r \in 2..2 : Logout(r)
    \/ \E r \in 3..3 : Receive(r)
    \/ \E r \in 3..3 : PutFollowupSelect(r)
    \/ \E r \in 3..3 : PutFollowupUpdate(r)
    \/ \E r \in 3..3 : PutFollowupInsert(r)
    \/ \E r \in 3..3 : CommentsSelect(r)
    \/ Tick

Spec == Init /\ [][Next]_vars

SpecSessions == InitSessions /\ [][NextSessions]_vars

SpecDecodeFailures == InitDecodeFailures /\ [][NextDecodeFailures]_vars

SpecPipeline == InitPipeline /\ [][NextPipeline]_vars

(***************************************************************************)
(* Claims.                                                                 *)
(***************************************************************************)
LastSent(q) == q.sent[Len(q.sent)]
Answered(q, status) == q.pc = "done" /\ q.sent # <<>> /\ LastSent(q).status = status

\* a system comment that narrates a change of date: "scheduled for" or
\* "changed from"
IsChangeEntry(text) ==
    text[1] \in {Str("Follow-up scheduled for "), Str("Follow-up date changed from ")}

\* C1: two PUT /customers/:id/followup requests on the same record never
\* both read the same previous state of the row and both append a change
\* entry that describes it as the state before.
C1_SerializedFollowups ==
    \A r1, r2 \in DOMAIN reqs :
        ~ /\ r1 # r2
          /\ reqs[r1].route = PutFollowup /\ reqs[r2].route = PutFollowup
          /\ reqs[r1].id = reqs[r2].id
          /\ reqs[r1].read # <<>> /\ reqs[r1].read = reqs[r2].read
          /\ \E i \in 1..Len(reqs[r1].appended) : IsChangeEntry(reqs[r1].appended[i])
          /\ \E i \in 1..Len(reqs[r2].appended) : IsChangeEntry(reqs[r2].appended[i])

\* C2: in PUT /customers/:id/followup and POST /customers/:id/followup/done
\* the UPDATE of next_followup_date and the INSERT of its comment commit
\* together or not at all: a request that ended in 500 has left neither
\* behind, and no request has left one of them without the other.
C2_FollowupUnitAtomic ==
    \A r \in DOMAIN reqs :
        (reqs[r].route \in {PutFollowup, PostFollowupDone} /\ Answered(reqs[r], 500))
            => (reqs[r].wrote = <<>> /\ reqs[r].appended = <<>>)

Denied(q) == \E i \in 1..Len(q.sent) : q.sent[i].status \in {401, 403}

\* C3: once authenticate or a guard has answered 401 or 403, the request is
\* over: that is its only response, no later middleware was entered (next()
\* was called only by the middlewares before the one that denied), and no
\* statement of the handler reached the store.
C3_DenialShortCircuits ==
    \A r \in DOMAIN reqs :
        LET q == reqs[r] IN
        Denied(q) =>
            /\ q.pc = "done"
            /\ Len(q.sent) = 1
            /\ q.nextCalls = (IF q.sent[1].status = 401 THEN 0 ELSE 1)
            /\ q.queries = <<>> /\ q.read = <<>>
            /\ q.wrote = <<>> /\ q.appended = <<>>

C3_Witness ==
    \E r \in DOMAIN reqs :
        /\ reqs[r].route = PutFollowup
        /\ reqs[r].user # Undefined
        /\ reqs[r].user.role = "customer"
        /\ reqs[r].sent = <<Res(403, "Staff or admin access required")>>

\* C4: requireCustomerSelf lets admin and staff through for every :id, a
\* customer exactly when customerId equals :id, and answers 403 in every
\* other case.
C4_CustomerSelf ==
    \A r \in DOMAIN reqs :
        LET q == reqs[r] IN
        (q.route \in {GetComments, PostComments} /\ q.nextCalls >= 1) =>
            IF \/ q.user.role \in {"admin", "staff"}
               \/ (q.user.role = "customer" /\ q.user.customerId = q.id)
            THEN q.nextCalls = 2 /\ ~Denied(q)
            ELSE q.nextCalls = 1
                 /\ q.sent = <<Res(403, "Access denied to this customer")>>

C4_Witness ==
    \E r \in DOMAIN reqs :
        /\ reqs[r].route = GetComments
        /\ reqs[r].user # Undefined
        /\ reqs[r].user.role = "customer"
        /\ reqs[r].user.customerId = reqs[r].id
        /\ reqs[r].nextCalls = 2

\* C5: requireAdmin calls next() iff the role is admin, requireStaffOrAdmin
\* iff it is staff or admin; otherwise each answers 403 and does not call
\* next().
C5_RoleGuards ==
    \A r \in DOMAIN reqs :
        LET q == reqs[r] IN
        /\ (q.route = PostCustomers /\ q.nextCalls >= 1) =>
              IF q.user.role = "admin"
              THEN q.nextCalls = 2 /\ ~Denied(q)
              ELSE q.nextCalls = 1 /\ q.sent = <<Res(403, "Admin access required")>>
        /\ (q.route \in {PatchCustomer, PutFollowup, PostFollowupDone}
                /\ q.nextCalls >= 1) =>
              IF q.user.role \in {"staff", "admin"}
              THEN q.nextCalls = 2 /\ ~Denied(q)
              ELSE q.nextCalls = 1
                   /\ q.sent = <<Res(403, "Staff or admin access required")>>

C5_Witness ==
    \E r \in DOMAIN reqs :
        /\ reqs[r].route = PostCustomers
        /\ reqs[r].user # Undefined
        /\ reqs[r].user.role = "staff"
        /\ reqs[r].sent = <<Res(403, "Admin access required")>>

\* the header reads "Bearer ", then a token
HasBearerShape(h) ==
    /\ h # Undefined
    /\ Len(h.chars) > 7
    /\ \A i \in 1..7 : h.chars[i] = BearerPrefix[i]

\* C6: a request whose Authorization header is absent or is not
\* "Bearer <token>" is answered 401 "Missing or invalid authorization
\* header"; no identity is attached and the token is not decoded.
C6_MissingCredential ==
    \A r \in DOMAIN reqs :
        LET q == reqs[r] IN
        (q.pc # "idle" /\ ~HasBearerShape(q.authorization)) =>
            /\ q.sent = <<Res(401, "Missing or invalid authorization header")>>
            /\ q.user = Undefined
            /\ ~q.verified
            /\ q.nextCalls = 0

C6_Witness ==
    \E r \in DOMAIN reqs :
        /\ reqs[r].authorization = HeaderStr(LowerBearerPrefix \o <<AdminToken>>)
        /\ reqs[r].sent = <<Res(401, "Missing or invalid authorization header")>>

DecodeFailed(q) == q.verified /\ q.err # ""

\* C7: two requests whose tokens fail to verify, for whatever reasons, get
\* the same response, 401 "Invalid or expired token", and neither gets an
\* identity.
C7_DecodeFailuresAlike ==
    \A r1, r2 \in DOMAIN reqs :
        (DecodeFailed(reqs[r1]) /\ DecodeFailed(reqs[r2])) =>
            /\ reqs[r1].sent = reqs[r2].sent
            /\ reqs[r1].sent = <<Res(401, "Invalid or expired token")>>
            /\ reqs[r1].user = Undefined

C7_Witness ==
    \E r1, r2 \in DOMAIN reqs :
        /\ reqs[r1].err = "TokenExpiredError: jwt expired"
        /\ reqs[r2].err = "JsonWebTokenError: invalid signature"
        /\ reqs[r1].route = reqs[r2].route
        /\ reqs[r1].sent # <<>> /\ reqs[r2].sent # <<>>

DayOf(date) == <<date.y, date.m, date.d>>

\* the narrative the policy table gives for a previous and a next value
Narrative(previous, next) ==
    IF previous = next THEN <<>>
    ELSE IF next = Null THEN <<FollowUpCleared>>
    ELSE IF previous = Null
        THEN << <<Str("Follow-up scheduled for "), Rendered(DayOf(next)), Str(".")>> >>
    ELSE << <<Str("Follow-up date changed from "), Rendered(DayOf(previous)),
              Str(" to "), Rendered(DayOf(next)), Str(".")>> >>

\* C8: a PUT /customers/:id/followup that succeeds has appended exactly
\* what the policy table gives for the value it read and the value it
\* stored: nothing when they are equal, else the cleared, scheduled or
\* changed text with each date rendered from its own value.
C8_NarrativePolicy ==
    \A r \in DOMAIN reqs :
        LET q == reqs[r] IN
        (q.route = PutFollowup /\ Answered(q, 200)) =>
            q.appended = Narrative(q.read[1].value, q.wrote[1].to)

\* C9: a PUT /customers/:id/followup that succeeds has appended an entry
\* exactly when its UPDATE changed the stored value.
C9_EntryPerTransition ==
    \A r \in DOMAIN reqs :
        LET q == reqs[r] IN
        (q.route = PutFollowup /\ Answered(q, 200)) =>
            (q.appended # <<>> <=> q.wrote[1].from # q.wrote[1].to)

\* C10: every request that succeeded in changing a record's
\* next_followup_date has appended an entry for the change.
C10_NoUnauditedChange ==
    \A r \in DOMAIN reqs :
        LET q == reqs[r] IN
        (Answered(q, 200) /\ q.wrote # <<>> /\ q.wrote[1].from # q.wrote[1].to)
            => q.appended # <<>>

\* C11: a POST /customers/:id/followup/done that succeeds on an existing
\* record has set next_followup_date to null and has appended exactly one
\* entry, 'Follow-up marked as done.', whatever the value was before (a date
\* or null); no mark-done ever appends 'Follow-up cleared.'.
C11_MarkDoneNarrative ==
    \A r \in DOMAIN reqs :
        LET q == reqs[r] IN
        q.route = PostFollowupDone =>
            /\ \A i \in 1..Len(q.appended) :
                    q.appended[i] = <<Str("Follow-up marked as done.")>>
            /\ Answered(q, 200) =>
                    /\ Len(q.wrote) = 1 /\ q.wrote[1].to = Null
                    /\ Len(q.appended) = 1

C11_Witness ==
    \E r1, r2 \in DOMAIN reqs :
        /\ reqs[r1].route = PostFollowupDone /\ Answered(reqs[r1], 200)
        /\ reqs[r1].wrote[1].from # Null
        /\ reqs[r2].route = PostFollowupDone /\ Answered(reqs[r2], 200)
        /\ reqs[r2].wrote[1].from = Null

\* the text of a real calendar date in the layout YYYY-MM-DD (white space
\* around it aside)
IsRealYmd(v) == v.shape = "YYYY-MM-DD" /\ IsCalendarDate(v.y, v.m, v.d)

\* C12: a PUT /customers/:id/followup whose next_followup_date is non-null
\* and is not the text of a real calendar date in the layout YYYY-MM-DD is
\* answered 400 by the handler's validation: the handler never awaits a
\* statement and none reaches the store.
C12_MalformedDateRejected ==
    \A r \in DOMAIN reqs :
        LET q == reqs[r]
            next_followup_date == q.body.next_followup_date
        IN
        (/\ q.route = PutFollowup /\ q.nextCalls = 2
         /\ next_followup_date \notin {Null, Undefined}
         /\ ~IsRealYmd(next_followup_date)) =>
            /\ q.pc = "done" /\ Len(q.sent) = 1 /\ q.sent[1].status = 400
            /\ q.queries = <<>> /\ q.read = <<>> /\ q.wrote = <<>>

\* the rows of customer_comments of one customer, in created_at order
History(id, table) == SelectSeq(table, LAMBDA row : row.customer_id = id)

IsPrefix(a, b) == Len(a) <= Len(b) /\ SubSeq(b, 1, Len(a)) = a

\* C13: whatever one step of any request does, every customer's history
\* before the step is a prefix of its history after the step: entries are
\* only added at the end, none is changed or removed.
C13_AppendOnly ==
    [][/\ IsPrefix(comments, comments')
       /\ \A id \in Ids : IsPrefix(History(id, comments), History(id, comments'))]_vars

C13_Witness ==
    \E id \in Ids :
        /\ Len(History(id, comments)) >= 2
        /\ History(id, comments)[1] # History(id, comments)[2]

\* the logins that were answered with a token
IssuedLogins == {r \in DOMAIN reqs : reqs[r].route = PostLogin /\ reqs[r].issued # <<>>}

\* the claim a login made its token from: the row of table users it read
ClaimOf(login) ==
    Claims(login.read[1].id, login.read[1].role, OrNull(login.read[1].customer_id))

\* C14: at every time, for every token a login has issued from a claim C:
\* while fewer than 7 days have passed since it was issued,
\* verifyAccessToken returns the userId, role and customerId of C and
\* authenticate attaches them; from then on verifyAccessToken fails and
\* authenticate answers 401 'Invalid or expired token'.
C14_TokenRoundTrip ==
    \A r \in IssuedLogins :
        LET token == reqs[r].issued[1]
            C == ClaimOf(reqs[r])
            v == verifyAccessToken(<<token>>)
            a == authenticate([Idle EXCEPT !.authorization = Bearer(token)])
        IN  IF now < token.iat + 7
            THEN /\ v.ok /\ v.payload = C
                 /\ a.next /\ a.sent = <<>> /\ a.user = C
            ELSE /\ ~v.ok
                 /\ ~a.next /\ a.user = Undefined
                 /\ a.sent = <<Res(401, "Invalid or expired token")>>

\* a request presented a token of a login when its 7 days were over, and
\* was refused
C14_Witness ==
    \E r \in IssuedLogins, x \in DOMAIN reqs :
        /\ reqs[x].authorization = Bearer(reqs[r].issued[1])
        /\ reqs[r].read[1].role = "customer"
        /\ reqs[x].err = "TokenExpiredError: jwt expired"
        /\ reqs[x].sent = <<Res(401, "Invalid or expired token")>>

\* the request's token operation found no signing secret
HitMissingSecret(q) == q.err = "Error: JWT_SECRET environment variable is not set"

\* C15: when JWT_SECRET is not set, the error raised by the first token
\* operation (verifyAccessToken in authenticate, createAccessToken in the
\* login) is never turned into an ordinary response of the request: neither
\* a 401 credential denial nor a 500 request failure is sent for it.
C15_MissingSecretFatal ==
    \A r \in DOMAIN reqs :
        HitMissingSecret(reqs[r]) =>
            \A i \in 1..Len(reqs[r].sent) : reqs[r].sent[i].status \notin {401, 500}

\* the rendering of the new date in a "scheduled for" or "changed from"
\* entry: its last part before the full stop
NewDateIn(text) == text[Len(text) - 1]

\* C16: in every process time zone, the entry a PUT /customers/:id/followup
\* appends renders the new date as day, short month and year of the very
\* calendar day that the request stored.
C16_RenderedDayFaithful ==
    \A r \in DOMAIN reqs :
        LET q == reqs[r] IN
        q.route = PutFollowup =>
            \A i \in 1..Len(q.appended) :
                IsChangeEntry(q.appended[i]) =>
                    NewDateIn(q.appended[i]) = Rendered(DayOf(q.wrote[1].to))

\* whether a header is accepted, as a function of the header, the secret
\* and the time alone
Accepted(h, secret, clock) ==
    /\ HasBearerShape(h) /\ Len(h.chars) = 8
    /\ h.chars[8].form = "jwt"
    /\ Truthy(secret) /\ h.chars[8].sig = secret
    /\ clock < h.chars[8].exp

\* C17: in every state, whatever requests came before (logins, logouts,
\* other requests), authenticate accepts a header clients hold exactly when
\* its token is signed with the secret and has not expired at the current
\* time; and a request that was refused although its token is signed with
\* the secret was refused because the token had expired.
C17_Stateless ==
    /\ \A h \in clients.credentials :
          LET a == authenticate([Idle EXCEPT !.authorization = h]) IN
          /\ a.next <=> Accepted(h, JWT_SECRET, now)
          /\ a.next => a.user = h.chars[8].claims
    /\ \A r \in DOMAIN reqs :
          LET q == reqs[r] IN
          (q.route \in Routes /\ q.nextCalls = 0 /\ q.pc = "done"
              \* signed with the secret: acceptable before it was issued
              /\ Accepted(q.authorization, JWT_SECRET, 0 - 1)) =>
                  now >= q.authorization.chars[8].exp

\* a login, after it a logout, after that a request with the token of the
\* login, which was accepted
C17_Witness ==
    \E r \in IssuedLogins, o, x \in DOMAIN reqs :
        /\ reqs[o].route = PostLogout /\ PostLogin \in reqs[o].before
        /\ reqs[x].route = GetComments /\ PostLogout \in reqs[x].before
        /\ reqs[x].authorization = Bearer(reqs[r].issued[1])
        /\ reqs[x].nextCalls = 2 /\ Answered(reqs[x], 200)
        /\ now > 0

\* C18: a PUT /customers/:id/followup or POST /customers/:id/followup/done
\* that passed the guards and the validation, on an :id that is the id of
\* no customer, has written nothing and appended nothing, and is answered
\* 404 (or 500 when the store itself was out of reach).
C18_MissingRecord404 ==
    \A r \in DOMAIN reqs :
        LET q == reqs[r] IN
        (/\ q.route \in {PutFollowup, PostFollowupDone}
         /\ q.nextCalls = 2 /\ q.pc = "done"
         /\ LastSent(q).status # 400
         /\ q.id \notin DOMAIN customers) =>
            /\ q.wrote = <<>> /\ q.appended = <<>>
            /\ \/ q.sent = <<NotFound>>
               \/ q.sent = <<Res(500, IF q.route = PutFollowup
                                         THEN "Failed to update follow-up date"
                                         ELSE "Failed to mark follow-up done")>>
                  /\ q.err = ""

\* C19: every identity that authenticate attached to a request for a token
\* of a login has a customerId exactly when its role is customer: never a
\* customer without one, never an admin or staff with one.
C19_IdentityClaim ==
    \A r \in DOMAIN reqs :
        LET q == reqs[r] IN
        (q.route \in Routes /\ q.user # Undefined) =>
            /\ q.user.role \in {"admin", "staff", "customer"}
            /\ q.user.role = "customer" => q.user.customerId # Null
            /\ q.user.role \in {"admin", "staff"} => q.user.customerId = Null

C19_Witness ==
    \E r \in IssuedLogins, x \in DOMAIN reqs :
        /\ reqs[x].authorization = Bearer(reqs[r].issued[1])
        /\ reqs[x].user # Undefined
        /\ reqs[x].user.role = "customer"
        /\ reqs[x].user.customerId = Cust2
        /\ reqs[x].user.customerId = reqs[r].read[1].customer_id

\* a step changes some customer's next_followup_date, or adds a customer
FollowupWritten ==
    \/ DOMAIN customers' # DOMAIN customers
    \/ \E id \in DOMAIN customers :
          customers'[id].next_followup_date # customers[id].next_followup_date

\* a step appends the entry of a follow-up route
SystemEntryAppended ==
    \E r \in DOMAIN reqs :
        /\ reqs'[r].route \in {PutFollowup, PostFollowupDone}
        /\ Len(reqs'[r].appended) > Len(reqs[r].appended)

\* C20: every step that writes a next_followup_date or appends the entry
\* of a follow-up route is a step of a request that authenticate accepted
\* with role staff or admin and that its guard let through; no request
\* with role customer, and none without a valid identity, takes such a step.
C20_OnlyStaffWritesFollowup ==
    [][(FollowupWritten \/ SystemEntryAppended) =>
        \E r \in DOMAIN reqs :
            /\ reqs'[r] # reqs[r]
            /\ reqs[r].user # Undefined
            /\ reqs[r].user.role \in {"staff", "admin"}
            /\ reqs[r].nextCalls = 2
            /\ reqs[r].route \in {PostCustomers, PatchCustomer, PutFollowup,
                                  PostFollowupDone}]_vars

C20_Witness ==
    \E r \in DOMAIN reqs :
        /\ reqs[r].route = PatchCustomer
        /\ reqs[r].body.next_followup_date = D1
        /\ reqs[r].user # Undefined
        /\ reqs[r].user.role = "customer"
        /\ reqs[r].user.customerId = reqs[r].id
        /\ reqs[r].pc = "done" /\ reqs[r].wrote = <<>>
        /\ \A id \in DOMAIN customers : customers[id].version = 0

\* an entry written by a follow-up route
IsFollowupEntry(text) ==
    \/ IsChangeEntry(text)
    \/ text \in {<<Str("Follow-up cleared.")>>, <<Str("Follow-up marked as done.")>>}

\* the entry tells of the stored value: a cleared or done entry of null, a
\* scheduled or changed entry of the date it names as the new one (rendered
\* as the server renders that date)
Describes(text, stored) ==
    IF stored = Null THEN ~IsChangeEntry(text)
    ELSE /\ IsChangeEntry(text)
         /\ NewDateIn(text) =
                Interpolate(formatCommentDate(Ymd(stored.y, stored.m, stored.d)))

\* C21: whenever every request is over, and all of them were PUT
\* /customers/:id/followup or POST /customers/:id/followup/done requests
\* that succeeded, the latest follow-up entry of each record tells of the
\* value the record now stores.
C21_TrailMatchesState ==
    (\A r \in DOMAIN reqs :
        \/ reqs[r].pc = "idle"
        \/ /\ reqs[r].route \in {PutFollowup, PostFollowupDone}
           /\ Answered(reqs[r], 200)) =>
    \A id \in DOMAIN customers :
        LET h == SelectSeq(History(id, comments),
                           LAMBDA row : IsFollowupEntry(row.comment))
        IN  h # <<>> => Describes(h[Len(h)].comment, customers[id].next_followup_date)

(***************************************************************************)
(* C22: what a login tells its caller.                                     *)
(***************************************************************************)
\* the local rows of table users with the email of a login, as the SELECT
\* of the handler compares it
LocalUsersOf(q) ==
    {u \in users : u.email = TrimLower(q.body.email) /\ u.auth_provider = Str("local")}

\* a login the handler took past the check of its body and whose SELECT the
\* store answered
LoginAnswered(q) ==
    q.route = PostLogin /\ q.pc = "done" /\ q.queries = <<"SELECT">>

UnknownEmail(q) == LocalUsersOf(q) = {}

\* the email is known and the password sent is not the one its hash was
\* made from
WrongPassword(q) ==
    /\ LocalUsersOf(q) # {}
    /\ \A u \in LocalUsersOf(q) : u.password_hash # BcryptHash(q.body.password)

\* C22: every login with an unknown email, and every login with a known
\* email and a wrong password, is answered with the same response, 401
\* 'Invalid email or password', and is issued no token; a token is issued
\* only to a login whose email is that of a local user and whose password
\* matches the hash of that user.
C22_LoginIndistinguishable ==
    \A r \in DOMAIN reqs :
        LET q == reqs[r] IN
        LoginAnswered(q) =>
            /\ (UnknownEmail(q) \/ WrongPassword(q)) =>
                    q.sent = <<InvalidLogin>> /\ q.issued = <<>>
            /\ q.issued # <<>> =>
                    \E u \in LocalUsersOf(q) : u.password_hash = BcryptHash(q.body.password)

====
